---- MODULE Spec2Model ----
(***************************************************************************)
(* Model of src/src/barChart.ts: the view-model transform                  *)
(* (visualTransform) with its colour functions (shadeColor), the update    *)
(* cycle of the BarChart visual, the selection synchronisation             *)
(* (syncSelectionState), the pointer handlers and the tooltip content      *)
(* provider, together with the host services they call (selection          *)
(* manager, colour palette) and the d3 v3 data join and scales they rely   *)
(* on.                                                                     *)
(*                                                                         *)
(* JavaScript values.  An optional value (a property that may be           *)
(* undefined or null) is a sequence of length at most one: None is         *)
(* undefined/null, Some(x) is the value x.  Opacities are kept in          *)
(* hundredths (1.0 is 100, 0.4 is 40, generalView.opacity/100 is the       *)
(* opacity setting itself), so no fractions are needed.                    *)
(***************************************************************************)
EXTENDS Integers, Sequences, FiniteSets, Bags, TLC

VARIABLES
    shadeArgs,          \* arguments of the last shadeColor call (SpecShade)
    shaded,             \* what that call returned (SpecShade)
    options,            \* argument of the last visualTransform call (SpecTransform)
    viewModel,          \* what that call returned (SpecTransform)
    hostSelection,      \* host: the authoritative selected-id set (getSelectionIds)
    allowInteractions,  \* host.allowInteractions
    pending,            \* host: select/clear promises not yet resolved, in issue order
    barDataPoints,      \* this.barDataPoints (None before the first update)
    barChartSettings,   \* this.barChartSettings (None before the first update)
    barSelection,       \* this.barSelection: None, or Some(k): the update selection
                        \* holding the first k .bar elements of the bar container
    bars,               \* the rect.bar elements of the bar container, document order
    gradients,          \* the linearGradient registrations appended to the svg,
                        \* as a bag: how many elements carry each registration
    svgHandlers,        \* listeners of the svg element: click and contextmenu counts
    lastEvent           \* history: the last handler that ran, how it ended, and
                        \* the host calls and syncs it made

vars == <<shadeArgs, shaded, options, viewModel, hostSelection, allowInteractions, pending,
          barDataPoints, barChartSettings, barSelection, bars, gradients,
          svgHandlers, lastEvent>>

---------------------------------------------------------------------------
(* Bounds of the model *)

\* longest category column and longest value column of a raw query result
MaxRows == 2
\* most select/clear requests outstanding at once
MaxPending == 2

---------------------------------------------------------------------------
(* JavaScript optional values *)

None == <<>>
Some(x) == <<x>>
Max(a, b) == IF a > b THEN a ELSE b

\* the element of a one-element set
Only(S) == CHOOSE x \in S : TRUE

\* a[i] of a JavaScript array, undefined beyond its end (index from 1 here)
At(arr, i) == IF i \in 1..Len(arr) THEN Some(arr[i]) ELSE None

\* `${x}` of a category value: the text, or "undefined" beyond the column's end
Text(opt) == IF opt = None THEN "undefined" ELSE opt[1]

---------------------------------------------------------------------------
(* Host services *)

Categories == {"A", "B", "C"}

\* colorPalette.getColor(key).value: a fixed colour per key
PaletteColor(key) ==
    CASE key = "A" -> "#01b8aa"
      [] key = "B" -> "#fd625e"
      [] key = "C" -> "#f2c80f"
      [] OTHER     -> "#374649"

ThemeForeground == "#ffffff"
ThemeBackground == "#000000"

\* host.colorPalette for a theme
ColorPalette(isHighContrast) ==
    [isHighContrast |-> isHighContrast,
     foreground |-> ThemeForeground,
     background |-> ThemeBackground]

\* host.createSelectionIdBuilder().withCategory(category, i).createSelectionId():
\* an id is the set of the row keys it is built from
CategorySelectionId(category, i) == {Text(At(category.values, i))}

\* currentSelectionId.includes(selectionId): every key of the current id is
\* one of the other id's keys
Includes(current, selectionId) == current \subseteq selectionId

---------------------------------------------------------------------------
(* Persisted object properties *)

\* getValue(objects, objectName, propertyName, defaultValue)
getValue(objects, objectName, propertyName, defaultValue) ==
    IF objects = None THEN defaultValue
    ELSE LET object == objects[1][objectName]
         IN IF object = None THEN defaultValue
            ELSE IF object[1][propertyName] = None THEN defaultValue
                 ELSE object[1][propertyName][1]

\* getCategoricalObjectValue(category, index, 'colorSelector', propertyName, defaultValue)
getCategoricalObjectValue(category, index, propertyName, defaultValue) ==
    LET object == At(category.objects, index)
    IN IF object = None \/ object[1] = None THEN defaultValue
       ELSE IF object[1][1][propertyName] = None THEN defaultValue
            ELSE object[1][1][propertyName][1]

---------------------------------------------------------------------------
(* shadeColor *)

HexLower == <<"0","1","2","3","4","5","6","7","8","9","a","b","c","d","e","f">>
HexUpper == <<"0","1","2","3","4","5","6","7","8","9","A","B","C","D","E","F">>

HexVal(ch) == CHOOSE v \in 0..15 : ch \in {HexLower[v + 1], HexUpper[v + 1]}

\* parseInt(color.substring(from - 1, from + 1), 16) for two hex digits
ParseChannel(color, from) ==
    16 * HexVal(SubSeq(color, from, from)) + HexVal(SubSeq(color, from + 1, from + 1))

\* as TruncDiv100, rounding the quotient to the nearest integer
RoundDiv100(n) == IF n >= 0 THEN (n + 50) \div 100 ELSE -((50 - n) \div 100)

\* parseInt(`${x}`) of the quotient n / 100: the decimal text up to the point
TruncDiv100(n) == IF n >= 0 THEN n \div 100 ELSE -((-n) \div 100)

\* R.toString(16) for 0 <= R <= 255
ToString16(R) ==
    IF R < 16 THEN HexLower[R + 1]
    ELSE HexLower[(R \div 16) + 1] \o HexLower[(R % 16) + 1]

\* as ShadeChannel, without the leading zero of a one-digit channel
ShadeChannelUnpadded(channel, percent) ==
    LET scaled == TruncDiv100(channel * (100 + percent))
        capped == IF scaled < 255 THEN scaled ELSE 255
    IN ToString16(capped)

ShadeChannel(channel, percent) ==
    LET scaled == TruncDiv100(channel * (100 + percent))
        capped == IF scaled < 255 THEN scaled ELSE 255
        text == ToString16(capped)
    IN IF Len(text) = 1 THEN "0" \o text ELSE text

shadeColor(color, percent) ==
    "#" \o ShadeChannel(ParseChannel(color, 2), percent)
        \o ShadeChannel(ParseChannel(color, 4), percent)
        \o ShadeChannel(ParseChannel(color, 6), percent)

---------------------------------------------------------------------------
(* Colour resolution *)

\* as getColumnColorByIndex, without the high-contrast return
getColumnColorByOverride(category, index, colorPalette, isEndColor) ==
    LET categoryColor == PaletteColor(Text(At(category.values, index)))
        categoryEndColor == shadeColor(categoryColor, -40)
    IN getCategoricalObjectValue(
           category, index,
           IF isEndColor THEN "endFill" ELSE "fill",
           IF isEndColor THEN categoryEndColor ELSE categoryColor)

getColumnColorByIndex(category, index, colorPalette, isEndColor) ==
    IF colorPalette.isHighContrast THEN colorPalette.background
    ELSE LET categoryColor == PaletteColor(Text(At(category.values, index)))
             categoryEndColor == shadeColor(categoryColor, -40)
         IN getCategoricalObjectValue(
                category, index,
                IF isEndColor THEN "endFill" ELSE "fill",
                IF isEndColor THEN categoryEndColor ELSE categoryColor)

getColumnStrokeColor(colorPalette) ==
    IF colorPalette.isHighContrast THEN Some(colorPalette.foreground) ELSE None

getColumnStrokeWidth(isHighContrast) == IF isHighContrast THEN 2 ELSE 0

getAxisTextFillColor(objects, colorPalette, defaultColor) ==
    IF colorPalette.isHighContrast THEN colorPalette.foreground
    ELSE getValue(objects, "enableAxis", "fill", defaultColor)

---------------------------------------------------------------------------
(* visualTransform *)

defaultSettings ==
    [enableAxis |-> Some([show |-> FALSE, fill |-> "#000000"]),
     generalView |-> Some([opacity |-> 100,
                           showHelpLink |-> FALSE,
                           helpLinkColor |-> Some("#80B0E0")])]

\* <BarChartSettings>{}: an object with neither property
EmptySettings == [enableAxis |-> None, generalView |-> None]

\* the outcome of a call: the returned view model, or a TypeError thrown
Returned(dataPoints, dataMax, settings) ==
    [threw |-> FALSE, dataPoints |-> dataPoints, dataMax |-> dataMax,
     settings |-> settings]
Thrown == [threw |-> TRUE, dataPoints |-> <<>>, dataMax |-> 0,
           settings |-> EmptySettings]

\* the guard of lines 89-95, up to the read of categories[0].source
NoCategories(o) ==
    \/ o.dataViews = None
    \/ At(o.dataViews[1], 1) = None
    \/ o.dataViews[1][1].categorical = None
    \/ o.dataViews[1][1].categorical[1].categories = None

\* as DataPointCount, counting the category column only
DataPointCountOfCategories(category, dataValue) == Len(category.values)

\* the loop bound of line 125
DataPointCount(category, dataValue) ==
    Max(Len(category.values), Len(dataValue.values))

RECURSIVE GreatestOf(_)
\* the greatest element of a sequence of numbers, 0 for none
GreatestOf(values) ==
    IF values = <<>> THEN 0 ELSE Max(Head(values), GreatestOf(Tail(values)))

\* as DataMax, recomputed from the values of the column
DataMaxOfValues(dataValue) == GreatestOf(dataValue.values)

\* dataMax of line 144
DataMax(dataValue) == dataValue.maxLocal

BuildDataPoint(category, dataValue, i, colorPalette) ==
    [color |-> getColumnColorByIndex(category, i, colorPalette, FALSE),
     endColor |-> getColumnColorByIndex(category, i, colorPalette, TRUE),
     strokeColor |-> getColumnStrokeColor(colorPalette),
     strokeWidth |-> getColumnStrokeWidth(colorPalette.isHighContrast),
     selectionId |-> CategorySelectionId(category, i),
     value |-> At(dataValue.values, i),
     category |-> Text(At(category.values, i))]

BuildSettings(objects, colorPalette) ==
    [enableAxis |-> Some(
        [show |-> getValue(objects, "enableAxis", "show",
                           defaultSettings.enableAxis[1].show),
         fill |-> getAxisTextFillColor(objects, colorPalette,
                                       defaultSettings.enableAxis[1].fill)]),
     generalView |-> Some(
        [opacity |-> getValue(objects, "generalView", "opacity",
                              defaultSettings.generalView[1].opacity),
         showHelpLink |-> getValue(objects, "generalView", "showHelpLink",
                                   defaultSettings.generalView[1].showHelpLink),
         helpLinkColor |-> getColumnStrokeColor(colorPalette)])]

visualTransform(o, colorPalette) ==
    IF NoCategories(o) THEN Returned(<<>>, 0, EmptySettings)
    ELSE LET categorical == o.dataViews[1][1].categorical[1]
             categories == categorical.categories[1]
         IN \* categories[0].source of an empty column list: TypeError
            IF Len(categories) = 0 THEN Thrown
            ELSE IF ~categories[1].source \/ categorical.values = None
                 THEN Returned(<<>>, 0, EmptySettings)
            \* dataValue.values of an empty value-column list: TypeError
            ELSE IF Len(categorical.values[1]) = 0 THEN Thrown
            ELSE LET category == categories[1]
                     dataValue == categorical.values[1][1]
                     len == DataPointCount(category, dataValue)
                 IN Returned(
                        [i \in 1..len |->
                            BuildDataPoint(category, dataValue, i, colorPalette)],
                        DataMax(dataValue),
                        BuildSettings(o.dataViews[1][1].objects, colorPalette))

---------------------------------------------------------------------------
(* Raw query results: what the host may hand to update *)

RECURSIVE SeqsUpTo(_, _)
\* the sequences over S of length at most n
SeqsUpTo(S, n) ==
    IF n = 0 THEN {<<>>}
    ELSE LET shorter == SeqsUpTo(S, n - 1)
         IN shorter \cup {Append(s, x) : s \in {t \in shorter : Len(t) = n - 1}, x \in S}

Injective(s) == \A i, j \in 1..Len(s) : i # j => s[i] # s[j]

\* a category column groups the rows: its values are distinct
CategoryValues == {s \in SeqsUpTo(Categories, MaxRows) : Injective(s)}

Measures == {3, 7}
MaxLocals == {5, 10}

\* persisted colorSelector properties of one category row
ColorOverrides ==
    {None,
     Some([fill |-> Some(PaletteColor("A")), endFill |-> Some(PaletteColor("B"))]),
     Some([fill |-> Some(PaletteColor("B")), endFill |-> Some(PaletteColor("A"))])}

\* persisted dataViews[0].metadata.objects
PersistedObjects ==
    {None,
     Some([enableAxis |-> None,
           generalView |-> Some([opacity |-> Some(50), showHelpLink |-> None])]),
     Some([enableAxis |-> Some([show |-> Some(TRUE), fill |-> Some("#ff0000")]),
           generalView |-> None]),
     Some([enableAxis |-> Some([show |-> None, fill |-> None]),
           generalView |-> Some([opacity |-> Some(10), showHelpLink |-> Some(TRUE)])])}

CategoryColumn(source, values, objects) ==
    [source |-> source, values |-> values, objects |-> objects]
ValueColumn(values, maxLocal) == [values |-> values, maxLocal |-> maxLocal]

DataViews(categories, values, objects) ==
    [dataViews |-> Some(<<[categorical |-> Some([categories |-> categories,
                                                  values |-> values]),
                           objects |-> objects]>>)]

\* a result with one category column and one value column
Sufficient(categoryValues, overrides, measures, maxLocal, objects) ==
    DataViews(Some(<<CategoryColumn(TRUE, categoryValues, overrides)>>),
              Some(<<ValueColumn(measures, maxLocal)>>), objects)

SomeValueColumn == ValueColumn(<<3>>, 10)
SomeCategoryColumn == CategoryColumn(TRUE, <<"A">>, <<>>)

\* the results that are absent or structurally incomplete
InsufficientResults ==
    {[dataViews |-> None],
     [dataViews |-> Some(<<>>)],
     [dataViews |-> Some(<<[categorical |-> None, objects |-> None]>>)],
     DataViews(None, Some(<<SomeValueColumn>>), None),
     DataViews(Some(<<>>), Some(<<SomeValueColumn>>), None),
     DataViews(Some(<<CategoryColumn(FALSE, <<"A">>, <<>>)>>),
               Some(<<SomeValueColumn>>), None),
     DataViews(Some(<<SomeCategoryColumn>>), None, None),
     DataViews(Some(<<SomeCategoryColumn>>), Some(<<>>), None)}

SufficientResults ==
    {Sufficient(cv, ov, ms, ml, ob) :
        cv \in CategoryValues,
        ov \in {<<>>} \cup {s \in SeqsUpTo(ColorOverrides, MaxRows) : Len(s) = 1},
        ms \in SeqsUpTo(Measures, MaxRows),
        ml \in MaxLocals,
        ob \in PersistedObjects}

RawResults == InsufficientResults \cup SufficientResults

\* a result is insufficient when it is absent or has no categorical part, no
\* category column, no source on that column, or no value column
Insufficient(o) ==
    \/ o.dataViews = None
    \/ Len(o.dataViews[1]) = 0
    \/ o.dataViews[1][1].categorical = None
    \/ LET categorical == o.dataViews[1][1].categorical[1]
       IN \/ categorical.categories = None
          \/ Len(categorical.categories[1]) = 0
          \/ ~categorical.categories[1][1].source
          \/ categorical.values = None
          \/ Len(categorical.values[1]) = 0

---------------------------------------------------------------------------
(* The transform alone: SpecTransform applies visualTransform to every raw *)
(* result under both themes                                                *)

\* history record of one handler run: which handler, what it was given, how
\* it ended ("ok", or the error it threw), the select/clear calls and the
\* context-menu request it sent to the host, and how many times it called
\* syncSelectionState
Event(kind, input, result, calls, menu, syncs) ==
    [kind |-> kind, input |-> input, result |-> result, calls |-> calls,
     menu |-> menu, syncs |-> Len(syncs)]

\* no shadeColor call is on record
InitShade ==
    /\ shadeArgs = None
    /\ shaded = None

InitHost ==
    /\ hostSelection = {}
    /\ allowInteractions = TRUE
    /\ pending = <<>>

InitVisual ==
    /\ barDataPoints = None
    /\ barChartSettings = None
    /\ barSelection = None
    /\ bars = <<>>
    /\ gradients = EmptyBag
    /\ svgHandlers = [click |-> 0, contextmenu |-> 0]
    /\ lastEvent = Event("constructor", "", "ok", <<>>, None, <<>>)

\* the arguments of one call: a raw result and the host's theme
TransformInputs ==
    {[raw |-> o, isHighContrast |-> h] : o \in RawResults, h \in BOOLEAN}

InitTransform ==
    /\ options \in {Some(input) : input \in TransformInputs}
    /\ viewModel = None
    /\ InitShade
    /\ InitHost
    /\ InitVisual

Transform ==
    /\ options # None
    /\ viewModel = None
    /\ viewModel' = Some(visualTransform(options[1].raw,
                                         ColorPalette(options[1].isHighContrast)))
    /\ UNCHANGED <<shadeArgs, shaded, options, hostSelection, allowInteractions, pending,
                   barDataPoints, barChartSettings, barSelection, bars, gradients,
                   svgHandlers, lastEvent>>

NextTransform == Transform

SpecTransform == InitTransform /\ [][NextTransform]_vars

---------------------------------------------------------------------------
(* shadeColor alone: SpecShade applies it to colours whose channels take    *)
(* every 8-bit value, written with either case of hex digit                *)

\* two hex digits of an 8-bit value
ToHex2(v, digits) == digits[(v \div 16) + 1] \o digits[(v % 16) + 1]

\* #RRGGBB colours: the red channel takes every value, green and blue are
\* spread away from it
ShadeColors ==
    {"#" \o ToHex2(v, digits) \o ToHex2(255 - v, digits)
         \o ToHex2((v + 85) % 256, digits) :
        v \in 0..255, digits \in {HexLower, HexUpper}}

\* the arguments of the one call site (line 183): a palette colour and -40
ShadeInputs == {[color |-> c, percent |-> -40] : c \in ShadeColors}

InitShadeCall ==
    /\ shadeArgs \in {Some(input) : input \in ShadeInputs}
    /\ shaded = None
    /\ options = None
    /\ viewModel = None
    /\ InitHost
    /\ InitVisual

Shade ==
    /\ shadeArgs # None
    /\ shaded = None
    /\ shaded' = Some(shadeColor(shadeArgs[1].color, shadeArgs[1].percent))
    /\ UNCHANGED <<shadeArgs, options, viewModel, hostSelection, allowInteractions,
                   pending, barDataPoints, barChartSettings, barSelection, bars,
                   gradients, svgHandlers, lastEvent>>

NextShade == Shade

SpecShade == InitShadeCall /\ [][NextShade]_vars

---------------------------------------------------------------------------
(* The host's selection manager *)

\* the ids other visuals and bookmarks may select are the category rows and
\* a row of another visual that carries a second key
\* what an out-of-band selection change may leave selected, in Spec
InteractiveSelections == {{}, {{"B"}}}

\* selectionManager.select(id, multiSelect): the selection it leaves
HostSelect(selection, id, multiSelect) ==
    IF multiSelect
    THEN IF id \in selection THEN selection \ {id} ELSE selection \cup {id}
    ELSE IF selection = {id} THEN {} ELSE {id}

SelectCall(id, multiSelect) ==
    [kind |-> "select", id |-> Some(id), multiSelect |-> multiSelect]
ClearCall == [kind |-> "clear", id |-> None, multiSelect |-> FALSE]

\* the selection after the manager has taken a call
HostApply(selection, call) ==
    IF call.kind = "select"
    THEN HostSelect(selection, call.id[1], call.multiSelect)
    ELSE {}

\* the promise of a call: it will resolve to the selection the call left
Promise(selection, call) ==
    [kind |-> call.kind, ids |-> HostApply(selection, call)]

RECURSIVE HostTake(_, _, _)
\* the manager takes the calls of one handler run, in order
HostTake(selection, promises, calls) ==
    IF calls = <<>> THEN [selection |-> selection, promises |-> promises]
    ELSE HostTake(HostApply(selection, Head(calls)),
                  Append(promises, Promise(selection, Head(calls))),
                  Tail(calls))

---------------------------------------------------------------------------
(* syncSelectionState *)

solidOpacity == 100
transparentOpacity == 40

\* as isSelectionIdInArray, with every in place of some
isSelectionIdInEveryId(selectionIds, selectionId) ==
    IF selectionIds = None \/ selectionId = None THEN FALSE
    ELSE \A currentSelectionId \in selectionIds[1] :
            Includes(currentSelectionId, selectionId[1])

isSelectionIdInArray(selectionIds, selectionId) ==
    IF selectionIds = None \/ selectionId = None THEN FALSE
    ELSE \E currentSelectionId \in selectionIds[1] :
            Includes(currentSelectionId, selectionId[1])

\* selection.style / selection.each touch the elements the selection holds
InSelection(selection, i) == i <= selection[1]

syncSelectionState(elements, selection, selectionIds) ==
    IF selection = None \/ selectionIds = None THEN elements
    ELSE IF selectionIds[1] = {}
    THEN [i \in 1..Len(elements) |->
            IF InSelection(selection, i)
            THEN [elements[i] EXCEPT !.fillOpacity = None, !.strokeOpacity = None]
            ELSE elements[i]]
    ELSE [i \in 1..Len(elements) |->
            IF InSelection(selection, i)
            THEN LET isSelected ==
                         isSelectionIdInArray(selectionIds,
                                              Some(elements[i].datum.selectionId))
                     opacity == IF isSelected THEN solidOpacity
                                ELSE transparentOpacity
                 IN [elements[i] EXCEPT !.fillOpacity = Some(opacity),
                                        !.strokeOpacity = Some(opacity)]
            ELSE elements[i]]

\* the opacity an element shows: its inline style, or the property's initial
\* value 1 once the inline style is removed (style(name, null))
EffectiveOpacity(style) == IF style = None THEN 100 ELSE style[1]

\* one call of syncSelectionState, as a handler makes it
SyncCall(selection, selectionIds) ==
    [selection |-> selection, selectionIds |-> selectionIds]

RECURSIVE ApplySyncs(_, _)
ApplySyncs(elements, calls) ==
    IF calls = <<>> THEN elements
    ELSE ApplySyncs(syncSelectionState(elements, Head(calls).selection,
                                       Head(calls).selectionIds),
                    Tail(calls))

---------------------------------------------------------------------------
(* The render pass of update *)

\* BarChart.Config.margins.bottom
marginsBottom == 25

\* options.viewport of every update call
Viewport == [width |-> 500, height |-> 100]

\* a number kept as a fraction, and NaN
Number(num, den) == [nan |-> FALSE, num |-> num, den |-> den]
NaN == [nan |-> TRUE, num |-> 0, den |-> 1]

\* d3.scale.linear().domain([0, dataMax]).range([height, 0]) at value:
\* NaN for undefined, the start of the range for an empty domain
yScale(height, dataMax, value) ==
    IF value = None THEN NaN
    ELSE IF dataMax = 0 THEN Number(height, 1)
    ELSE Number(height * (dataMax - value[1]), dataMax)

\* height - yScale(d.value)
BarHeight(height, dataMax, value) ==
    IF value = None THEN NaN
    ELSE IF dataMax = 0 THEN Number(0, 1)
    ELSE Number(height * value[1], dataMax)

RECURSIVE OrdinalDomain(_)
\* d3.scale.ordinal().domain(categories): the distinct categories in the
\* order of their first occurrence
OrdinalDomain(categories) ==
    IF categories = <<>> THEN <<>>
    ELSE LET front == OrdinalDomain(SubSeq(categories, 1, Len(categories) - 1))
             last == categories[Len(categories)]
         IN IF \E i \in 1..Len(front) : front[i] = last THEN front
            ELSE Append(front, last)

\* xScale(d.category) under rangeRoundBands: the band of the category among
\* the bands of the domain
xScale(domain, category) ==
    [band |-> CHOOSE i \in 1..Len(domain) : domain[i] = category,
     bands |-> Len(domain)]

\* xScale.rangeBand(): the width of one of the domain's bands
rangeBand(domain) == [bands |-> Len(domain)]

\* the scales of lines 320-354 for a view model
Scales(vm) ==
    [height |-> IF vm.settings.enableAxis[1].show
                THEN Viewport.height - marginsBottom ELSE Viewport.height,
     dataMax |-> vm.dataMax,
     domain |-> OrdinalDomain([i \in 1..Len(vm.dataPoints) |->
                                  vm.dataPoints[i].category])]

\* a rect appended by enter().append('rect'): no attribute, no inline style,
\* no listener.  fillResolves records whether the gradient a fill names was
\* registered when the fill was assigned.
NewRect(dataPoint) ==
    [datum |-> dataPoint, x |-> None, y |-> None, width |-> None,
     height |-> None, fillOpacity |-> None, strokeOpacity |-> None,
     fill |-> None, fillResolves |-> FALSE, stroke |-> None,
     strokeWidth |-> None, tooltip |-> 0, click |-> 0]

\* selectAll('.bar').data(dataPoints) and enter().append('rect'): the join is
\* by position; the elements beyond the data stay in the document until
\* exit().remove()
DataJoin(elements, dataPoints) ==
    [i \in 1..Max(Len(elements), Len(dataPoints)) |->
        IF i > Len(dataPoints) THEN elements[i]
        ELSE IF i <= Len(elements) THEN [elements[i] EXCEPT !.datum = dataPoints[i]]
        ELSE NewRect(dataPoints[i])]

\* as gradientId, naming the gradient by the start colour alone
gradientIdOfColor(dataPoint) ==
    "gradient_" \o SubSeq(dataPoint.color, 2, Len(dataPoint.color))

gradientId(dataPoint) ==
    "gradient_" \o SubSeq(dataPoint.color, 2, Len(dataPoint.color))
                \o "_" \o SubSeq(dataPoint.endColor, 2, Len(dataPoint.endColor))

\* this.svg.select(`#${gradientId}`).empty()
GradientMissing(registered, id) ==
    \A g \in BagToSet(registered) : g.id # id

LinearGradient(dataPoint) ==
    [id |-> gradientId(dataPoint),
     stops |-> <<[offset |-> "0%", color |-> dataPoint.color, opacity |-> 1],
                 [offset |-> "100%", color |-> dataPoint.endColor, opacity |-> 1]>>]

\* as EnsureGradient, without the look-up of an existing registration
EnsureGradientUnchecked(registered, dataPoint) ==
    registered (+) SetToBag({LinearGradient(dataPoint)})

EnsureGradient(registered, dataPoint) ==
    IF GradientMissing(registered, gradientId(dataPoint))
    THEN registered (+) SetToBag({LinearGradient(dataPoint)})
    ELSE registered

RECURSIVE CreateGradients(_, _)
\* the forEach of lines 372-390
CreateGradients(registered, dataPoints) ==
    IF dataPoints = <<>> THEN registered
    ELSE CreateGradients(EnsureGradient(registered, Head(dataPoints)),
                         Tail(dataPoints))

\* the attr and style calls of lines 392-405 on one element of the selection
Paint(element, opacity, registered, scales) ==
    [element EXCEPT
        !.width = Some(rangeBand(scales.domain)),
        !.height = Some(BarHeight(scales.height, scales.dataMax,
                                  element.datum.value)),
        !.y = Some(yScale(scales.height, scales.dataMax, element.datum.value)),
        !.x = Some(xScale(scales.domain, element.datum.category)),
        !.fillOpacity = Some(opacity),
        !.strokeOpacity = Some(opacity),
        !.fill = Some("url(#" \o gradientId(element.datum) \o ")"),
        !.fillResolves = ~GradientMissing(registered, gradientId(element.datum)),
        !.stroke = element.datum.strokeColor,
        !.strokeWidth = Some(<<element.datum.strokeWidth, "px">>)]

PaintAll(elements, selection, opacity, registered, scales) ==
    [i \in 1..Len(elements) |->
        IF InSelection(selection, i)
        THEN Paint(elements[i], opacity, registered, scales)
        ELSE elements[i]]

\* addTooltip(this.barContainer.selectAll('.bar'), ...) of lines 407-410:
\* every .bar element of the container gets the tooltip listener
AddTooltip(elements) ==
    [i \in 1..Len(elements) |-> [elements[i] EXCEPT !.tooltip = 1]]

\* selection.on('click', listener): one listener per element, replacing any
OnClick(elements, selection) ==
    [i \in 1..Len(elements) |->
        IF InSelection(selection, i) THEN [elements[i] EXCEPT !.click = 1]
        ELSE elements[i]]

\* as RemoveExit, leaving the exit selection in the document
KeepExit(elements, selection) == elements

\* exit().remove(): the elements the join left without data
RemoveExit(elements, selection) == SubSeq(elements, 1, selection[1])

\* as UpdateSync, without the call
UpdateSyncSkipped(selection, selectionIds) == <<>>

\* the sync of lines 412-415
UpdateSync(selection, selectionIds) == <<SyncCall(selection, Some(selectionIds))>>

\* as Render, assigning the fills before the gradients are created
RenderPaintFirst(vm, elements, registered, selectionIds) ==
    LET selection == Some(Len(vm.dataPoints))
        opacity == vm.settings.generalView[1].opacity
        syncs == UpdateSync(selection, selectionIds)
    IN [barSelection |-> selection,
        gradients |-> CreateGradients(registered, vm.dataPoints),
        bars |-> Only({RemoveExit(listening, selection) :
                    listening \in {OnClick(synced, selection) :
                    synced \in {ApplySyncs(hovering, syncs) :
                    hovering \in {AddTooltip(painted) :
                    painted \in {PaintAll(joined, selection, opacity,
                                          registered, Scales(vm)) :
                    joined \in {DataJoin(elements, vm.dataPoints)}}}}}}),
        syncs |-> syncs]

\* as Render, with the sync of lines 412-415 placed before the attr and style
\* calls of lines 392-405
RenderSyncFirst(vm, elements, registered, selectionIds) ==
    LET selection == Some(Len(vm.dataPoints))
        opacity == vm.settings.generalView[1].opacity
        syncs == UpdateSync(selection, selectionIds)
        created == CreateGradients(registered, vm.dataPoints)
    IN [barSelection |-> selection,
        gradients |-> created,
        bars |-> Only({RemoveExit(listening, selection) :
                    listening \in {OnClick(hovering, selection) :
                    hovering \in {AddTooltip(painted) :
                    painted \in {PaintAll(synced, selection, opacity,
                                          created, Scales(vm)) :
                    synced \in {ApplySyncs(joined, syncs) :
                    joined \in {DataJoin(elements, vm.dataPoints)}}}}}}),
        syncs |-> syncs]

\* lines 360-456 for a view model whose settings are complete: the data
\* join, the gradients, the attributes and styles, the tooltip, the sync, the
\* click listener and the removal of the exit selection, in that order
\* (each stage is bound as a value before the next one reads it)
Render(vm, elements, registered, selectionIds) ==
    LET selection == Some(Len(vm.dataPoints))
        opacity == vm.settings.generalView[1].opacity
        syncs == UpdateSync(selection, selectionIds)
        created == CreateGradients(registered, vm.dataPoints)
    IN [barSelection |-> selection,
        gradients |-> created,
        bars |-> Only({RemoveExit(listening, selection) :
                    listening \in {OnClick(synced, selection) :
                    synced \in {ApplySyncs(hovering, syncs) :
                    hovering \in {AddTooltip(painted) :
                    painted \in {PaintAll(joined, selection, opacity,
                                          created, Scales(vm)) :
                    joined \in {DataJoin(elements, vm.dataPoints)}}}}}}),
        syncs |-> syncs]

---------------------------------------------------------------------------
(* update *)

\* the results the host hands to update in Spec: an absent result, and one or
\* two category rows with their values
InteractiveResults ==
    {[dataViews |-> None]} \cup
    {Sufficient(cv, <<>>, [i \in 1..Len(cv) |-> 3], 10, None) :
        cv \in {<<"A">>, <<"A", "B">>}}

SwapAB == Some([fill |-> Some(PaletteColor("A")), endFill |-> Some(PaletteColor("B"))])
SwapBA == Some([fill |-> Some(PaletteColor("B")), endFill |-> Some(PaletteColor("A"))])

Opacity50 ==
    Some([enableAxis |-> None,
          generalView |-> Some([opacity |-> Some(50), showHelpLink |-> None])])

UpdateCall(o, isHighContrast) == [raw |-> o, isHighContrast |-> isHighContrast]

\* the update calls the host makes in SpecRender: every insufficient shape;
\* one or two category rows with a value column of any length, with and
\* without persisted colours; the same with a persisted opacity; and the
\* same under the high-contrast theme
RenderCalls ==
    {UpdateCall(o, FALSE) : o \in InsufficientResults}
    \cup {UpdateCall(Sufficient(cv, ov, [i \in 1..n |-> 3], 10, None), FALSE) :
            cv \in {<<"A">>, <<"A", "B">>},
            ov \in {<<>>, <<SwapAB, SwapBA>>, <<SwapAB, SwapAB>>},
            n \in 1..MaxRows}
    \cup {UpdateCall(Sufficient(cv, <<>>, [i \in 1..n |-> 3], 10, ob), h) :
            cv \in {<<"A">>, <<"A", "B">>},
            n \in 1..MaxRows,
            ob \in {None, Opacity50},
            h \in BOOLEAN}

\* what an out-of-band selection change may leave selected, in SpecRender
RenderSelections == {{}, {{"B"}}, {{"A", "S"}}, {{"A", "S"}, {"B"}}}

\* the calls of update the specifications make
UpdateCalls ==
    {UpdateCall(o, FALSE) : o \in InteractiveResults} \cup RenderCalls

\* visualTransform(options, this.host) of line 313, for each of those calls
ViewModels ==
    [call \in UpdateCalls |->
        visualTransform(call.raw, ColorPalette(call.isHighContrast))]

Update(o, isHighContrast) ==
    \E vm \in {ViewModels[UpdateCall(o, isHighContrast)]},
       input \in {IF Insufficient(o) THEN "insufficient" ELSE "sufficient"} :
       /\ IF vm.threw
          THEN \* line 313 throws: nothing has been assigned
               /\ lastEvent' = Event("update", input, "TypeError", <<>>, None, <<>>)
               /\ UNCHANGED <<barDataPoints, barChartSettings, barSelection, bars,
                              gradients, svgHandlers>>
          ELSE IF vm.settings.enableAxis = None
          THEN \* lines 314-315 assign, then settings.enableAxis.show of
               \* line 328 throws
               /\ barChartSettings' = Some(vm.settings)
               /\ barDataPoints' = Some(vm.dataPoints)
               /\ lastEvent' = Event("update", input, "TypeError", <<>>, None, <<>>)
               /\ UNCHANGED <<barSelection, bars, gradients, svgHandlers>>
          ELSE \E r \in {Render(vm, bars, gradients, hostSelection)} :
                  /\ barChartSettings' = Some(vm.settings)
                  /\ barDataPoints' = Some(vm.dataPoints)
                  /\ barSelection' = r.barSelection
                  /\ bars' = r.bars
                  /\ gradients' = r.gradients
                  /\ svgHandlers' = [click |-> 1, contextmenu |-> 1]
                  /\ lastEvent' = Event("update", input, "ok", <<>>, None, r.syncs)
       /\ UNCHANGED <<shadeArgs, shaded, options, viewModel, hostSelection, allowInteractions, pending>>

---------------------------------------------------------------------------
(* Pointer handlers *)

\* as BarClickListener, always asking for a multi-selection
BarClickListenerMulti(d, isCtrlPressed, allowed) ==
    IF allowed
    THEN [calls |-> <<SelectCall(d.selectionId, TRUE)>>, stopped |-> TRUE]
    ELSE [calls |-> <<>>, stopped |-> FALSE]

\* as BarClickListener, without stopPropagation
BarClickListenerBubbling(d, isCtrlPressed, allowed) ==
    IF allowed
    THEN [calls |-> <<SelectCall(d.selectionId, isCtrlPressed)>>, stopped |-> FALSE]
    ELSE [calls |-> <<>>, stopped |-> FALSE]

\* the click listener of a bar (lines 417-430): the calls it makes on the
\* selection manager, and whether it stops the event
BarClickListener(d, isCtrlPressed, allowed) ==
    IF allowed
    THEN [calls |-> <<SelectCall(d.selectionId, isCtrlPressed)>>, stopped |-> TRUE]
    ELSE [calls |-> <<>>, stopped |-> FALSE]

\* the click listener of the svg (lines 437-445)
SvgClickListener(allowed) == IF allowed THEN <<ClearCall>> ELSE <<>>

\* the contextmenu listener of the svg (lines 447-456): the id it hands to
\* showContextMenu, None standing for the empty object
ContextMenuListener(dataPoint, allowed) ==
    Some(IF dataPoint = None THEN None ELSE Some(dataPoint[1].selectionId))

\* a click on bar i: its listener runs, and unless stopped the event bubbles
\* to the svg's listener
BarClick(i, isCtrlPressed) ==
    /\ i \in 1..Len(bars)
    /\ bars[i].click > 0
    /\ allowInteractions => Len(pending) < MaxPending
    /\ LET own == BarClickListener(bars[i].datum, isCtrlPressed, allowInteractions)
           bubbled == IF ~own.stopped /\ svgHandlers.click > 0
                      THEN SvgClickListener(allowInteractions) ELSE <<>>
           calls == own.calls \o bubbled
           host == HostTake(hostSelection, pending, calls)
       IN /\ hostSelection' = host.selection
          /\ pending' = host.promises
          /\ lastEvent' = Event("barClick", "", "ok", calls, None, <<>>)
    /\ UNCHANGED <<shadeArgs, shaded, options, viewModel, allowInteractions, barDataPoints,
                   barChartSettings, barSelection, bars, gradients, svgHandlers>>

\* a click on the empty area of the svg
SvgClick ==
    /\ svgHandlers.click > 0
    /\ allowInteractions => Len(pending) < MaxPending
    /\ LET calls == SvgClickListener(allowInteractions)
           host == HostTake(hostSelection, pending, calls)
       IN /\ hostSelection' = host.selection
          /\ pending' = host.promises
          /\ lastEvent' = Event("svgClick", "", "ok", calls, None, <<>>)
    /\ UNCHANGED <<shadeArgs, shaded, options, viewModel, allowInteractions, barDataPoints,
                   barChartSettings, barSelection, bars, gradients, svgHandlers>>

RECURSIVE NumberToString(_)
\* value.toString() of a non-negative integer
NumberToString(n) ==
    IF n < 10 THEN HexLower[n + 1]
    ELSE NumberToString(n \div 10) \o HexLower[(n % 10) + 1]

\* getTooltipData(value) (lines 577-585): the tooltip items, or the TypeError
\* of value.value.toString() when the point has no value; the header, a
\* localised constant, is left out
getTooltipData(value) ==
    IF value.value = None THEN [threw |-> TRUE, items |-> <<>>]
    ELSE [threw |-> FALSE,
          items |-> <<[displayName |-> value.category,
                       value |-> NumberToString(value.value[1]),
                       color |-> value.color]>>]

\* the pointer hovers bar i: the tooltip service asks for the bar's content
Hover(i) ==
    /\ i \in 1..Len(bars)
    /\ bars[i].tooltip > 0
    /\ LET content == getTooltipData(bars[i].datum)
       IN lastEvent' = Event("tooltip",
                             IF bars[i].datum.value = None
                             THEN "absent" ELSE "present",
                             IF content.threw THEN "TypeError" ELSE "ok",
                             <<>>, None, <<>>)
    /\ UNCHANGED <<shadeArgs, shaded, options, viewModel, hostSelection,
                   allowInteractions, pending, barDataPoints, barChartSettings,
                   barSelection, bars, gradients, svgHandlers>>

\* a secondary click on bar target, or on the empty area when target is 0
ContextMenu(target) ==
    /\ target \in 0..Len(bars)
    /\ svgHandlers.contextmenu > 0
    /\ LET dataPoint == IF target = 0 THEN None ELSE Some(bars[target].datum)
       IN lastEvent' = Event("contextmenu", "", "ok", <<>>,
                             ContextMenuListener(dataPoint, allowInteractions),
                             <<>>)
    /\ UNCHANGED <<shadeArgs, shaded, options, viewModel, hostSelection, allowInteractions, pending,
                   barDataPoints, barChartSettings, barSelection, bars, gradients,
                   svgHandlers>>

---------------------------------------------------------------------------
(* Asynchronous resumptions *)

\* as SelectResolved, reading the manager's snapshot instead of its argument
SelectResolvedFromSnapshot(ids) == <<SyncCall(barSelection, Some(hostSelection))>>

\* the then-callback of a select promise (lines 424-426)
SelectResolved(ids) == <<SyncCall(barSelection, Some(ids))>>

\* as ClearResolved, without the sync
ClearResolvedUnsynced == <<>>

\* the then-callback of a clear promise (lines 441-443)
ClearResolved == <<SyncCall(barSelection, Some({}))>>

\* as OnSelectCallback, with this.barSelection read once in the constructor,
\* where it is still undefined
OnSelectCallbackCaptured(selectionIds) == <<SyncCall(None, Some(selectionIds))>>

\* the callback registered in the constructor (lines 277-279), run when
\* getSelectionIds() returns selectionIds
OnSelectCallback(selectionIds) == <<SyncCall(barSelection, Some(selectionIds))>>

RemoveAt(seq, i) == SubSeq(seq, 1, i - 1) \o SubSeq(seq, i + 1, Len(seq))

\* the i-th outstanding promise resolves
Resolve(i) ==
    /\ i \in 1..Len(pending)
    /\ LET promise == pending[i]
           syncs == IF promise.kind = "select" THEN SelectResolved(promise.ids)
                    ELSE ClearResolved
       IN /\ bars' = ApplySyncs(bars, syncs)
          /\ lastEvent' = Event("resolve", "", "ok", <<>>, None, syncs)
    /\ pending' = RemoveAt(pending, i)
    /\ UNCHANGED <<shadeArgs, shaded, options, viewModel, hostSelection, allowInteractions,
                   barDataPoints, barChartSettings, barSelection, gradients,
                   svgHandlers>>

\* the host announces a selection made elsewhere
SelectionChanged(selection) ==
    /\ hostSelection' = selection
    /\ LET syncs == OnSelectCallback(selection)
       IN /\ bars' = ApplySyncs(bars, syncs)
          /\ lastEvent' = Event("selectCallback", "", "ok", <<>>, None, syncs)
    /\ UNCHANGED <<shadeArgs, shaded, options, viewModel, allowInteractions, pending, barDataPoints,
                   barChartSettings, barSelection, gradients, svgHandlers>>

\* the host moves the visual between a view that allows interactions and one
\* that does not
SetAllowInteractions ==
    /\ allowInteractions' = ~allowInteractions
    /\ lastEvent' = Event("allowInteractions", "", "ok", <<>>, None, <<>>)
    /\ UNCHANGED <<shadeArgs, shaded, options, viewModel, hostSelection, pending, barDataPoints,
                   barChartSettings, barSelection, bars, gradients, svgHandlers>>

---------------------------------------------------------------------------
(* The visual in its host *)

Init ==
    /\ options = None
    /\ viewModel = None
    /\ InitShade
    /\ InitHost
    /\ InitVisual

Next ==
    \/ \E o \in InteractiveResults : Update(o, FALSE)
    \/ \E i \in 1..MaxRows, isCtrlPressed \in BOOLEAN : BarClick(i, isCtrlPressed)
    \/ SvgClick
    \/ \E target \in 0..MaxRows : ContextMenu(target)
    \/ \E i \in 1..MaxRows : Hover(i)
    \/ \E i \in 1..MaxPending : Resolve(i)
    \/ \E selection \in InteractiveSelections : SelectionChanged(selection)
    \/ SetAllowInteractions

Spec == Init /\ [][Next]_vars

\* the render pipeline alone, driven by the host: the update cycles of
\* RenderCalls, and out-of-band selection changes
NextRender ==
    \/ \E call \in RenderCalls : Update(call.raw, call.isHighContrast)
    \/ \E selection \in RenderSelections : SelectionChanged(selection)
    \/ \E i \in 1..MaxRows : Hover(i)

SpecRender == Init /\ [][NextRender]_vars

---------------------------------------------------------------------------
(* Properties of the view-model transform, checked under SpecTransform *)

Called == options # None /\ viewModel # None

\* C1: for every insufficient raw result, visualTransform returns no data
\* points, dataMax 0 and the default settings.
C1_InsufficientYieldsDefaults ==
    (Called /\ Insufficient(options[1].raw))
        => viewModel[1] = Returned(<<>>, 0, defaultSettings)

\* the first category column and the first value column of a sufficient result
CategoryOf(o) == o.dataViews[1][1].categorical[1].categories[1][1]
DataValueOf(o) == o.dataViews[1][1].categorical[1].values[1][1]

\* C3: a category column of length m and a value column of length n give
\* exactly max(m, n) data points, in index order, without failure; a point
\* beyond the end of the value column has no value.
C3_PointCountIsLongerColumn ==
    (Called /\ ~Insufficient(options[1].raw)) =>
        LET category == CategoryOf(options[1].raw).values
            values == DataValueOf(options[1].raw).values
            m == Len(category)
            n == Len(values)
            points == viewModel[1].dataPoints
        IN /\ ~viewModel[1].threw
           /\ Len(points) = IF m >= n THEN m ELSE n
           /\ \A i \in 1..Len(points) :
                /\ points[i].category = IF i <= m THEN category[i] ELSE "undefined"
                /\ points[i].value = IF i <= n THEN <<values[i]>> ELSE <<>>

\* a category column longer than a non-empty value column has been transformed
C3_Witness ==
    /\ Called
    /\ ~Insufficient(options[1].raw)
    /\ Len(DataValueOf(options[1].raw).values) = 1
    /\ Len(CategoryOf(options[1].raw).values) = 2
    /\ Len(viewModel[1].dataPoints) = 2
    /\ viewModel[1].dataPoints[1].value = <<3>>
    /\ viewModel[1].dataPoints[2].value = <<>>

\* C11: under the high-contrast theme every data point's colour and end
\* colour are the theme's background colour, its stroke colour is the theme's
\* foreground colour and its stroke width is 2, whatever the category, the
\* index and the persisted colours; otherwise the stroke colour is null and
\* the stroke width is 0.
C11_HighContrastColors ==
    (Called /\ ~Insufficient(options[1].raw)) =>
        \A i \in 1..Len(viewModel[1].dataPoints) :
            LET point == viewModel[1].dataPoints[i]
            IN IF options[1].isHighContrast
               THEN /\ point.color = ThemeBackground
                    /\ point.endColor = ThemeBackground
                    /\ point.strokeColor = Some(ThemeForeground)
                    /\ point.strokeWidth = 2
               ELSE /\ point.strokeColor = None
                    /\ point.strokeWidth = 0

\* two rows, the first with persisted colours, have been transformed under
\* the high-contrast theme
C11_Witness ==
    /\ Called
    /\ ~Insufficient(options[1].raw)
    /\ options[1].isHighContrast
    /\ Len(viewModel[1].dataPoints) = 2
    /\ CategoryOf(options[1].raw).objects = <<SwapAB>>
    /\ viewModel[1].dataPoints[1].color = ThemeBackground

C14_NoPersistedSettingsYieldDefaults ==
    (/\ Called
     /\ ~Insufficient(options[1].raw)
     /\ options[1].raw.dataViews[1][1].objects = None
     /\ ~options[1].isHighContrast)
        => viewModel[1].settings = defaultSettings

---------------------------------------------------------------------------
(* Properties of the render pipeline, checked under SpecRender *)

\* C2: an update cycle with an insufficient raw result completes and leaves
\* no rendered bar.
C2_InsufficientUpdateRendersEmpty ==
    (lastEvent.kind = "update" /\ lastEvent.input = "insufficient")
        => (lastEvent.result = "ok" /\ bars = <<>>)

\* a handler has just run syncSelectionState with the host's selected ids
SyncedWithHost ==
    /\ lastEvent.kind \in {"update", "selectCallback"}
    /\ lastEvent.syncs = 1
    /\ barSelection # None

\* C4: after a sync of the rendered bars with a non-empty selected-id set,
\* each bar whose id is included by some id of the set has fill and stroke
\* opacity 1.0, and every other bar has 0.4.
C4_SyncHighlightsIncluded ==
    (SyncedWithHost /\ hostSelection # {}) =>
        \A i \in 1..Len(bars) :
            LET included == \E s \in hostSelection :
                                s \subseteq bars[i].datum.selectionId
                opacity == IF included THEN <<100>> ELSE <<40>>
            IN bars[i].fillOpacity = opacity /\ bars[i].strokeOpacity = opacity

\* a sync with two selected ids, one of which includes the second bar, while
\* the other shares a key with the first bar without including it
C4_Witness ==
    /\ SyncedWithHost
    /\ hostSelection = {{"A", "S"}, {"B"}}
    /\ Len(bars) = 2
    /\ bars[1].datum.selectionId = {"A"}
    /\ bars[2].datum.selectionId = {"B"}
    /\ bars[1].fillOpacity = <<40>>
    /\ bars[2].fillOpacity = <<100>>

\* C5: after a sync with an empty selected-id set, every rendered bar shows
\* the resting opacity generalView.opacity / 100 of the current settings.
C5_EmptySyncShowsRestingOpacity ==
    (SyncedWithHost /\ hostSelection = {}
        /\ barChartSettings # None /\ barChartSettings[1].generalView # None) =>
        \A i \in 1..Len(bars) :
            /\ EffectiveOpacity(bars[i].fillOpacity)
                    = barChartSettings[1].generalView[1].opacity
            /\ EffectiveOpacity(bars[i].strokeOpacity)
                    = barChartSettings[1].generalView[1].opacity

\* the two stop colours of a registration
StopColors(g) == <<g.stops[1].color, g.stops[2].color>>

\* C6: a colour pair is registered once however often it is ensured, and the
\* pairs (a, b) and (b, a) get two registrations, each with its own stops:
\* no registration is duplicated, no two registrations share an id, and
\* every bar's pair has the registration with that pair's stops.
C6_GradientPerColorPair ==
    /\ \A g \in BagToSet(gradients) : CopiesIn(g, gradients) = 1
    /\ \A g, h \in BagToSet(gradients) : g.id = h.id => g = h
    /\ \A i \in 1..Len(bars) :
          \E g \in BagToSet(gradients) :
              /\ g.id = gradientId(bars[i].datum)
              /\ StopColors(g) = <<bars[i].datum.color, bars[i].datum.endColor>>
    /\ \A g, h \in BagToSet(gradients) :
          (StopColors(g) = <<StopColors(h)[2], StopColors(h)[1]>>
              /\ StopColors(g)[1] # StopColors(g)[2]) => g.id # h.id

\* two bars of one cycle share the pair (a, b), and (b, a) is registered too
C6_Witness ==
    /\ Len(bars) = 2
    /\ bars[1].datum.color # bars[1].datum.endColor
    /\ bars[1].datum.color = bars[2].datum.color
    /\ bars[1].datum.endColor = bars[2].datum.endColor
    /\ \E g, h \in BagToSet(gradients) :
          /\ StopColors(g) = <<bars[1].datum.color, bars[1].datum.endColor>>
          /\ StopColors(h) = <<bars[1].datum.endColor, bars[1].datum.color>>

\* an update cycle has just run to its end
UpdateCompleted == lastEvent.kind = "update" /\ lastEvent.result = "ok"

\* C15: for a data point that has no value because the value column is
\* shorter than the category column, the render pass of the update cycle
\* and the tooltip content provider both complete without failure.
C15_AbsentValueNeverFails ==
    /\ (/\ lastEvent.kind = "update"
        /\ lastEvent.input = "sufficient"
        /\ \E i \in 1..Len(barDataPoints[1]) : barDataPoints[1][i].value = None)
            => lastEvent.result = "ok"
    /\ (lastEvent.kind = "tooltip" /\ lastEvent.input = "absent")
            => lastEvent.result = "ok"

\* the colour pairs of the data points of a cycle, as registrations
PairsOf(dataPoints) ==
    {LinearGradient(dataPoints[i]) : i \in 1..Len(dataPoints)}

\* C16: over any sequence of update cycles, each step keeps every
\* registration it found, adds exactly the colour pairs of a completed
\* cycle that were not registered yet, and leaves one registration per
\* distinct (color, endColor) pair: the registrations number the distinct
\* pairs seen so far, however many updates ran.
C16_RegistrationsAreDistinctPairsSeen ==
    [][/\ BagToSet(gradients) \subseteq BagToSet(gradients')
       /\ BagToSet(gradients') =
             BagToSet(gradients) \cup
                (IF lastEvent'.kind = "update" /\ lastEvent'.result = "ok"
                 THEN PairsOf(barDataPoints'[1]) ELSE {})
       /\ \A g \in BagToSet(gradients') : CopiesIn(g, gradients') = 1
       /\ BagCardinality(gradients')
             = Cardinality({StopColors(g) : g \in BagToSet(gradients')})]_vars

\* a cycle of one bar has completed on a surface that holds three
\* registrations of earlier cycles besides
C16_Witness ==
    /\ UpdateCompleted
    /\ Len(bars) = 1
    /\ BagCardinality(gradients) = 4
    /\ \A g \in BagToSet(gradients) : CopiesIn(g, gradients) = 1

\* C17: at the end of every update cycle, each rendered bar's fill names a
\* registered gradient whose stops are the bar's color and endColor, and the
\* gradient was registered when the fill was assigned.
C17_FillNamesRegisteredGradient ==
    UpdateCompleted =>
        \A i \in 1..Len(bars) :
            /\ bars[i].fillResolves
            /\ \E g \in BagToSet(gradients) :
                  /\ bars[i].fill = Some("url(#" \o g.id \o ")")
                  /\ StopColors(g) = <<bars[i].datum.color, bars[i].datum.endColor>>

\* a cycle has completed with two bars filled by two gradients
C17_Witness ==
    /\ UpdateCompleted
    /\ Len(bars) = 2
    /\ bars[1].fill # None
    /\ bars[1].fill # bars[2].fill
    /\ bars[2].fillResolves

\* C18: when an update cycle completes, the rendered bars are the data
\* points of the latest view model, one bar per point in order (bars of
\* points that are gone have been removed, bars of new points created), and
\* every bar carries the geometry and the paint of its own point under the
\* scales of that view model.
C18_BarsAreLatestDataPoints ==
    UpdateCompleted =>
        /\ Len(bars) = Len(barDataPoints[1])
        /\ \E call \in RenderCalls :
              LET vm == ViewModels[call]
                  height == IF barChartSettings[1].enableAxis[1].show
                            THEN Viewport.height - marginsBottom
                            ELSE Viewport.height
                  domain == OrdinalDomain([i \in 1..Len(bars) |->
                                              barDataPoints[1][i].category])
              IN /\ ~vm.threw
                 /\ vm.dataPoints = barDataPoints[1]
                 /\ vm.settings = barChartSettings[1]
                 /\ \A i \in 1..Len(bars) :
                      LET point == barDataPoints[1][i]
                      IN /\ bars[i].datum = point
                         /\ bars[i].x = Some(xScale(domain, point.category))
                         /\ bars[i].width = Some(rangeBand(domain))
                         /\ bars[i].y = Some(yScale(height, vm.dataMax, point.value))
                         /\ bars[i].height =
                                Some(BarHeight(height, vm.dataMax, point.value))
                         /\ bars[i].fill = Some("url(#" \o gradientId(point) \o ")")
                         /\ bars[i].stroke = point.strokeColor
                         /\ bars[i].strokeWidth = Some(<<point.strokeWidth, "px">>)

\* a cycle of one bar, for category A, has completed on a surface where a
\* second bar, of category B's colour, was rendered before
C18_Witness ==
    /\ UpdateCompleted
    /\ Len(bars) = 1
    /\ bars[1].datum.category = "A"
    /\ bars[1].x = Some([band |-> 1, bands |-> 1])
    /\ \E g \in BagToSet(gradients) : StopColors(g)[1] = PaletteColor("B")

---------------------------------------------------------------------------
(* Properties of the visual in its host, checked under Spec *)

\* what a sync with the selected ids leaves as the opacity style of an element
Shown(ids, element) ==
    IF ids = {} THEN <<>>
    ELSE IF \E s \in ids : s \subseteq element.datum.selectionId THEN <<100>>
    ELSE <<40>>

ShowsAll(elements, ids) ==
    \A i \in 1..Len(elements) :
        /\ elements[i].fillOpacity = Shown(ids, elements[i])
        /\ elements[i].strokeOpacity = Shown(ids, elements[i])

\* a click without the modifier on bar i, with nothing selected and
\* interactions allowed, sends select(id of bar i, false) to the host
C7_ClickSelects ==
    \A i \in 1..MaxRows :
        (hostSelection = {} /\ allowInteractions /\ BarClick(i, FALSE)) =>
            /\ lastEvent'.calls = <<[kind |-> "select",
                                    id |-> <<bars[i].datum.selectionId>>,
                                    multiSelect |-> FALSE]>>
            /\ pending' = Append(pending,
                                 [kind |-> "select",
                                  ids |-> {bars[i].datum.selectionId}])

\* when a select promise resolves to the single id X, the bars with id X
\* have opacity 1.0 and the others 0.4
C7_ResolvedHighlights ==
    \A p \in 1..MaxPending :
        (Resolve(p) /\ pending[p].kind = "select"
                    /\ Cardinality(pending[p].ids) = 1) =>
            \A i \in 1..Len(bars') :
                LET opacity == IF {bars'[i].datum.selectionId} = pending[p].ids
                               THEN <<100>> ELSE <<40>>
                IN /\ bars'[i].fillOpacity = opacity
                   /\ bars'[i].strokeOpacity = opacity

\* C7: from an empty host selection with interactions allowed, a click
\* without the multi-select modifier on the bar with id X issues
\* select(X, false), and when that request resolves to {X} the bar X ends
\* with opacity 1.0 and every other rendered bar with 0.4.
C7_ClickThenResolveHighlights ==
    [][C7_ClickSelects /\ C7_ResolvedHighlights]_vars

\* the promise of a click on the first of two bars has resolved to that bar
C7_Witness ==
    /\ lastEvent.kind = "resolve"
    /\ pending = <<>>
    /\ hostSelection = {{"A"}}
    /\ Len(bars) = 2
    /\ bars[1].datum.selectionId = {"A"}
    /\ bars[1].fillOpacity = <<100>>
    /\ bars[2].fillOpacity = <<40>>

\* C8: a selection-changed notification syncs the bars rendered by the most
\* recently completed update cycle, all of them, with the host's current
\* selected ids.
C8_CallbackSyncsRenderedBars ==
    lastEvent.kind = "selectCallback" =>
        /\ lastEvent.syncs = 1
        /\ barSelection # None => ShowsAll(bars, hostSelection)

\* a notification arrives after a completed cycle of two bars and a later
\* cycle that failed
C8_Witness ==
    /\ lastEvent.kind = "selectCallback"
    /\ hostSelection = {{"B"}}
    /\ barDataPoints = <<<<>>>>
    /\ Len(bars) = 2
    /\ bars[1].fillOpacity = <<40>>
    /\ bars[2].fillOpacity = <<100>>

\* a resolving promise triggers exactly one sync, of the rendered bars with
\* the ids the promise carries (none for clear), and only that promise leaves
\* the outstanding ones
C9_ResolveSyncsOwnIds ==
    \A p \in 1..MaxPending :
        Resolve(p) =>
            /\ lastEvent'.syncs = 1
            /\ pending' = RemoveAt(pending, p)
            /\ ShowsAll(bars', IF pending[p].kind = "clear" THEN {}
                               ELSE pending[p].ids)

\* every other step keeps the outstanding promises and adds one per request
\* it sent
C9_NoneDropped ==
    lastEvent'.kind # "resolve" =>
        /\ Len(pending') = Len(pending) + Len(lastEvent'.calls)
        /\ SubSeq(pending', 1, Len(pending)) = pending

\* C9: with several select or clear requests outstanding, issued and resolved
\* in any order, no request is dropped, and every request that resolves
\* triggers exactly one sync, of the currently rendered bars with the id set
\* that request returned.
C9_EveryRequestSyncsItsOwnSet ==
    [][C9_ResolveSyncsOwnIds /\ C9_NoneDropped]_vars

\* a promise has resolved while another is outstanding, and the bars show
\* its ids, which are not the host's current ones
C9_Witness ==
    /\ lastEvent.kind = "resolve"
    /\ Len(pending) >= 1
    /\ Len(bars) = 2
    /\ ~ShowsAll(bars, hostSelection)

\* C10: while interactions are not permitted, a click on a bar issues no
\* select request, a click on the empty area no clear request, and a
\* secondary click no context-menu request.
C10_NothingIssuedWhenNotAllowed ==
    (lastEvent.kind \in {"barClick", "svgClick", "contextmenu"}
        /\ ~allowInteractions) =>
        (lastEvent.calls = <<>> /\ lastEvent.menu = None)

\* the bars a sync can read are wholly of one render pass: they are exactly
\* the bars of this.barSelection, and each has the geometry, the gradient
\* fill and the bands of one and the same pass
BarsOfOnePass ==
    /\ barSelection = None => bars = <<>>
    /\ barSelection # None =>
          /\ Len(bars) = barSelection[1]
          /\ \A i \in 1..Len(bars) :
                /\ bars[i].y # None /\ bars[i].height # None
                /\ bars[i].x # None /\ bars[i].width # None
                /\ bars[i].x[1].bands = bars[i].width[1].bands
                /\ bars[i].width = bars[1].width
                /\ bars[i].fill = Some("url(#" \o gradientId(bars[i].datum) \o ")")
                /\ bars[i].fillResolves

\* C19: no sync reads the bars of one pass while the next pass is partly
\* applied: whenever a handler may run, the bars are wholly of one pass, and
\* the sync of an update cycle has run after the rebinding, the geometry,
\* the gradients and the resting opacity, so that the cycle ends with the
\* opacities the sync assigns.
C19_SyncSeesWholePass ==
    /\ BarsOfOnePass
    /\ UpdateCompleted => (lastEvent.syncs = 1 /\ ShowsAll(bars, hostSelection))

\* an update cycle has completed while a selection request was outstanding,
\* and its sync has dimmed the bar that is not selected
C19_Witness ==
    /\ UpdateCompleted
    /\ Len(pending) > 0
    /\ hostSelection = {{"B"}}
    /\ Len(bars) = 2
    /\ bars[1].fillOpacity = Some(40)
    /\ bars[2].fillOpacity = Some(100)

\* at least one update cycle has completed and no select or clear request
\* is outstanding (handlers run to completion, so no update is in progress
\* in any state)
Quiescent == barSelection # None /\ pending = <<>>

\* C21 as stated: in every quiescent state the bars show what a sync of
\* them against the host's current selected-id set gives.
C21_QuiescentShowsHostSelection ==
    Quiescent => ShowsAll(bars, hostSelection)

\* the step resolves the only outstanding request, whose returned set is no
\* longer the host's current one
StaleResolution ==
    /\ lastEvent'.kind = "resolve"
    /\ Len(pending) = 1
    /\ pending[1].ids # hostSelection

\* C21 as amended: every step into a quiescent state leaves the bars showing
\* a sync against the host's current set, unless the sync that ran last is
\* the resolution of a request whose returned set the host's selection no
\* longer equals (then the bars show that request's set), or the step runs
\* no sync and starts from such a state.
C21_QuiescentShowsLastAppliedSet ==
    [][Quiescent' =>
          \/ ShowsAll(bars', hostSelection')
          \/ StaleResolution /\ ShowsAll(bars', pending[1].ids)
          \/ /\ Quiescent
             /\ ~ShowsAll(bars, hostSelection)
             /\ lastEvent'.syncs = 0
             /\ bars' = bars
             /\ hostSelection' = hostSelection]_vars

\* the last of two multi-select requests has resolved, and both bars show
\* the host's set
C21_Witness ==
    /\ Quiescent
    /\ lastEvent.kind = "resolve"
    /\ hostSelection = {{"A"}, {"B"}}
    /\ Len(bars) = 2
    /\ bars[1].fillOpacity = Some(100)
    /\ bars[2].fillOpacity = Some(100)

\* C22: whatever update cycles ran before, with interactions allowed a click
\* on a bar issues exactly one select request, for that bar, and no clear
\* request, and a click on the empty area issues exactly one clear request
\* and no select request; each bar and the svg carry one click listener.
C22_OneRequestPerClick ==
    /\ svgHandlers.click <= 1
    /\ \A i \in 1..Len(bars) : bars[i].click = 1
    /\ (lastEvent.kind = "barClick" /\ allowInteractions) =>
          /\ Len(lastEvent.calls) = 1
          /\ lastEvent.calls[1].kind = "select"
          /\ \E i \in 1..Len(bars) :
                lastEvent.calls[1].id = Some(bars[i].datum.selectionId)
    /\ (lastEvent.kind = "svgClick" /\ allowInteractions) =>
          lastEvent.calls = <<ClearCall>>

\* a bar has been clicked after two completed update cycles, the second of
\* which removed a bar
C22_Witness ==
    /\ lastEvent.kind = "barClick"
    /\ allowInteractions
    /\ Len(bars) = 1
    /\ BagCardinality(gradients) = 2
    /\ lastEvent.calls = <<SelectCall({"A"}, FALSE)>>
    /\ svgHandlers.click = 1

\* the visual's own state: everything but the host's
visualState ==
    <<barDataPoints, barChartSettings, barSelection, bars, gradients, svgHandlers>>

\* C23: a selection-changed notification before the first update cycle
\* ends without failure, runs its one sync call and changes nothing of the
\* visual; the first update cycle that completes afterwards renders its
\* data points and syncs them with the host's selection.
C23_EarlyNotificationIsNoOp ==
    [][/\ (barSelection = None /\ lastEvent'.kind = "selectCallback") =>
             /\ lastEvent'.result = "ok"
             /\ lastEvent'.syncs = 1
             /\ visualState' = visualState
       /\ (barSelection = None /\ lastEvent'.kind = "update"
                               /\ lastEvent'.result = "ok") =>
             /\ lastEvent'.syncs = 1
             /\ barSelection' = Some(Len(barDataPoints'[1]))
             /\ Len(bars') = Len(barDataPoints'[1])
             /\ \A i \in 1..Len(bars') : bars'[i].datum = barDataPoints'[1][i]
             /\ ShowsAll(bars', hostSelection')]_vars

\* a notification that B is selected has been handled before any update
\* cycle completed
C23_Witness ==
    /\ lastEvent.kind = "selectCallback"
    /\ lastEvent.result = "ok"
    /\ barSelection = None
    /\ hostSelection = {{"B"}}
    /\ bars = <<>>

---------------------------------------------------------------------------
(* Properties of shadeColor, checked under SpecShade *)

IsHexDigit(ch) == \E v \in 1..16 : ch \in {HexLower[v], HexUpper[v]}

\* '#' followed by exactly six hex digits
WellFormedColor(c) ==
    /\ Len(c) = 7
    /\ SubSeq(c, 1, 1) = "#"
    /\ \A k \in 2..7 : IsHexDigit(SubSeq(c, k, k))

\* where the three channels start in a #RRGGBB string
ChannelStarts == {2, 4, 6}

\* C12: for every valid #RRGGBB colour c, shadeColor(c, -40) is '#' followed
\* by exactly six hex digits, and each of its channels is at most the same
\* channel of c.  (shadeColor reads nothing but its two arguments, so equal
\* inputs give equal outputs.)
C12_ShadeDarkensWellFormed ==
    shaded # None =>
        /\ WellFormedColor(shaded[1])
        /\ \A k \in ChannelStarts :
              ParseChannel(shaded[1], k) <= ParseChannel(shadeArgs[1].color, k)

\* a colour with upper-case digits has been shaded to one whose red channel
\* takes a single hex digit and is smaller than it was
C12_Witness ==
    /\ shaded # None
    /\ SubSeq(shadeArgs[1].color, 2, 3) = "1A"
    /\ ParseChannel(shaded[1], 2) < 16
    /\ ParseChannel(shaded[1], 2) < ParseChannel(shadeArgs[1].color, 2)

\* clamp(x, 0, 255)
Clamp255(x) == IF x < 0 THEN 0 ELSE IF x > 255 THEN 255 ELSE x

\* C20 as stated: every channel of the end colour is
\* clamp(round(v * 60 / 100), 0, 255) of the input channel v, written as two
\* hex digits.
C20_ChannelIsRounded ==
    shaded # None =>
        /\ WellFormedColor(shaded[1])
        /\ \A k \in ChannelStarts :
              ParseChannel(shaded[1], k) =
                  Clamp255((ParseChannel(shadeArgs[1].color, k) * 60 + 50) \div 100)

\* C20 as amended: every channel of the end colour is v * 60 / 100 with the
\* fraction dropped (at most 255), written as two hex digits.
C20_ChannelIsTruncated ==
    shaded # None =>
        /\ WellFormedColor(shaded[1])
        /\ \A k \in ChannelStarts :
              ParseChannel(shaded[1], k) =
                  Clamp255((ParseChannel(shadeArgs[1].color, k) * 60) \div 100)

\* a channel whose scaled value has a fraction of one half or more has been
\* shaded: rounding and truncation differ there
C20_Witness ==
    /\ shaded # None
    /\ \E k \in ChannelStarts :
          (ParseChannel(shadeArgs[1].color, k) * 60) % 100 >= 50

====
